---------------------------- MODULE Spec2Model ----------------------------
(***************************************************************************)
(* Alt-Scanner: the outcome labeling engine (analyze_alerts.py), the       *)
(* scoring engine (src/scoring.py) and the per-symbol scan                 *)
(* (src/scanner.py), as state machines.                                    *)
(*                                                                         *)
(* Prices are integers on a small grid.  A Python dict is a function on    *)
(* its keys; dict.get(k) on a missing key is the default the code passes.  *)
(* A float ratio is a pair <<numerator, denominator>>.                     *)
(***************************************************************************)
EXTENDS Integers, Sequences, FiniteSets, TLC

VARIABLES
    \* ---- analyze_alerts.label_one_alert ----
    alert,          \* the alert dict handed to label_one_alert
    df,             \* forward bars returned by fetch_future_klines
    l_pc,           \* position in label_one_alert
    row,            \* index of the next row of df.iterrows()
    first_event,    \* local first_event
    max_tp_idx,     \* local max_tp_idx
    out,            \* the dict label_one_alert returns
    \* ---- scoring.score_signal ----
    features,       \* the Feature Set handed to score_signal
    config,         \* the parsed config.yaml
    scores,         \* the dict score_signal returns
    \* ---- scanner.analyze_symbol ----
    symbol,         \* the symbol being analysed
    s_pc,           \* position in analyze_symbol
    candles,        \* primary-timeframe bars returned by fetch_klines
    last,           \* candles.iloc[-1] with its indicator columns
    det,            \* the locals the detection block computes (lines 201-286)
    tf15_confirm,   \* local tf15_confirm
    swing_confirm,  \* local swing_confirm
    btc_ctx,        \* local btc_ctx
    side,           \* local side
    record,         \* the Signal Record handed to log_signal
    log,            \* the lines of data/alerts-YYYYMMDD.json
    sent,           \* the texts handed to send_telegram
    warnings,       \* the components whose failure warning was printed
    \* ---- analyze_alerts.main ----
    batch,          \* the records load_alerts returned
    b_i,            \* index of the record `for a in alerts` is at
    b_pc,           \* position in main
    all_rows,       \* local all_rows
    csv,            \* the rows of analysis/alerts_analysis.csv
    \* ---- scanner.main ----
    symbols,        \* symbols_to_scan
    m_i,            \* index of the symbol `for symbol in symbols_to_scan` is at
    m_pc            \* position in main

labelVars == <<alert, df, l_pc, row, first_event, max_tp_idx, out>>
scoreVars == <<features, config, scores>>
scanVars == <<symbol, s_pc, candles, last, det, tf15_confirm, swing_confirm, btc_ctx,
              side, record, log, sent, warnings>>
batchVars == <<batch, b_i, b_pc, all_rows, csv>>
mainVars == <<symbols, m_i, m_pc>>

vars == <<alert, df, l_pc, row, first_event, max_tp_idx, out,
          features, config, scores,
          symbol, s_pc, candles, last, det, tf15_confirm, swing_confirm, btc_ctx,
          side, record, log, sent, warnings,
          batch, b_i, b_pc, all_rows, csv,
          symbols, m_i, m_pc>>

-----------------------------------------------------------------------------
(* Bounds and input sets                                                   *)

\* Longest forward bar series the bar provider returns in the model.
MaxBars == 3

\* analyze_alerts.py:20 -- the limit passed to fetch_future_klines.
LOOKAHEAD_BARS == 48

\* Price grid of the forward bars.
Prices == 1..5

\* Forward bars: only high and low are read by label_one_alert.
Bars == {b \in [high : Prices, low : Prices] : b.low <= b.high}

RECURSIVE SeqsUpTo(_, _)
SeqsUpTo(S, n) ==
    IF n = 0 THEN {<<>>}
    ELSE LET shorter == SeqsUpTo(S, n - 1)
         IN  shorter \cup {Append(s, x) : s \in {t \in shorter : Len(t) = n - 1}, x \in S}

\* The empty dict {}.
EmptyDict == [k \in {} |-> 0]

Min(a, b) == IF a <= b THEN a ELSE b
Max(a, b) == IF a >= b THEN a ELSE b
Abs(x) == IF x < 0 THEN -x ELSE x

BarSeries == SeqsUpTo(Bars, Min(MaxBars, LOOKAHEAD_BARS))

\* Alerts as the scanner's level calculator shapes them: a BUY has its
\* stop-loss below entry and an ascending ladder above it, a SELL mirrors it.
ValidAlerts ==
    {[timestamp |-> "2024-05-01T12:00:00", symbol |-> "BTC_USDT",
      side |-> "BUY", entry |-> 3, sl |-> 2, tps |-> t] :
        t \in {<<>>, <<4>>, <<4, 5>>}}
    \cup
    {[timestamp |-> "2024-05-01T12:00:00", symbol |-> "BTC_USDT",
      side |-> "SELL", entry |-> 3, sl |-> 4, tps |-> t] :
        t \in {<<>>, <<2>>, <<2, 1>>}}

\* Alerts that fail the field validation of label_one_alert.
MalformedAlerts ==
    { [symbol |-> "BTC_USDT", side |-> "BUY", entry |-> 3, sl |-> 2, tps |-> <<4, 5>>],
      [timestamp |-> "", symbol |-> "BTC_USDT", side |-> "BUY", entry |-> 3, sl |-> 2,
       tps |-> <<4, 5>>],
      [timestamp |-> "2024-05-01T12:00:00", side |-> "BUY", entry |-> 3, sl |-> 2,
       tps |-> <<4, 5>>],
      [timestamp |-> "2024-05-01T12:00:00", symbol |-> "BTC_USDT", side |-> "NONE",
       entry |-> 3, tps |-> <<>>],
      [timestamp |-> "2024-05-01T12:00:00", symbol |-> "BTC_USDT", entry |-> 3, sl |-> 2,
       tps |-> <<4, 5>>],
      [timestamp |-> "2024-05-01T12:00:00", symbol |-> "BTC_USDT", side |-> "SELL",
       sl |-> 4, tps |-> <<2, 1>>],
      [timestamp |-> "2024-05-01T12:00:00", symbol |-> "BTC_USDT", side |-> "SELL",
       entry |-> 0, sl |-> 4, tps |-> <<2, 1>>],
      [timestamp |-> "2024-05-01T12:00:00", symbol |-> "BTC_USDT", side |-> "BUY",
       entry |-> 3, tps |-> <<4, 5>>],
      [timestamp |-> "yesterday", symbol |-> "BTC_USDT", side |-> "BUY", entry |-> 3,
       sl |-> 2, tps |-> <<4, 5>>] }

\* Alerts whose stop-loss equals the entry, as the level calculator writes
\* them when the ATR is 0 (sl = entry - atr * 1.5): they pass the field
\* validation of label_one_alert.
ZeroRiskAlerts ==
    { [timestamp |-> "2024-05-01T12:00:00", symbol |-> "BTC_USDT",
       side |-> "BUY", entry |-> 3, sl |-> 3, tps |-> <<4, 5>>],
      [timestamp |-> "2024-05-01T12:00:00", symbol |-> "BTC_USDT",
       side |-> "SELL", entry |-> 3, sl |-> 3, tps |-> <<2, 1>>] }

\* A JSON text value float() cannot convert, such as "n/a".
NotNumeric == -1

\* A JSON line that parses to a value that is not an object, such as [1, 2].
NotAnObject == [json_array |-> TRUE]

\* Records label_one_alert cannot read: a non-object line, and objects whose
\* entry or stop-loss is a text that is not a number.
UnconvertibleAlerts ==
    { NotAnObject,
      [timestamp |-> "2024-05-01T12:00:00", symbol |-> "BTC_USDT",
       side |-> "BUY", entry |-> NotNumeric, sl |-> 2, tps |-> <<4, 5>>],
      [timestamp |-> "2024-05-01T12:00:00", symbol |-> "BTC_USDT",
       side |-> "SELL", entry |-> 3, sl |-> NotNumeric, tps |-> <<2, 1>>] }

AlertInputs ==
    ValidAlerts \cup ZeroRiskAlerts \cup MalformedAlerts \cup UnconvertibleAlerts

\* The bar series the provider returns while a batch is labelled.
BatchSeries == {series \in BarSeries : Len(series) <= 1}

\* What fetch_future_klines returns.
FetchedSeries == IF b_pc = "idle" THEN BarSeries ELSE BatchSeries

-----------------------------------------------------------------------------
(* analyze_alerts.label_one_alert                                          *)

Has(d, k) == k \in DOMAIN d

\* d.get(k, default)
Get(d, k, default) == IF Has(d, k) THEN d[k] ELSE default

\* alert.get("timestamp") / alert.get("symbol") falsy: missing or empty.
Falsy(d, k) == Get(d, k, "") = ""

\* float(alert.get("entry") or 0.0)
EntryOf(a) == Get(a, "entry", 0)

\* alert.get("tps") or []
TpsOf(a) == Get(a, "tps", <<>>)

\* datetime.fromisoformat(ts_str.replace("Z", "+00:00")) succeeds.
IsoParsable(ts) == ts \in {"2024-05-01T12:00:00"}

\* The validation without its entry == 0.0 test.
FieldsRejectedNoEntry(a) ==
    \/ Falsy(a, "timestamp")
    \/ Falsy(a, "symbol")
    \/ Get(a, "side", "") \notin {"BUY", "SELL"}
    \/ ~Has(a, "sl")

\* if not ts_str or not symbol or side not in ("BUY", "SELL") or entry == 0.0 or sl is None
FieldsRejected(a) ==
    \/ Falsy(a, "timestamp")
    \/ Falsy(a, "symbol")
    \/ Get(a, "side", "") \notin {"BUY", "SELL"}
    \/ EntryOf(a) = 0
    \/ ~Has(a, "sl")

\* float(v) raises ValueError.
FloatRaises(v) == v = NotNumeric

\* Line 84 (alert.get on a non-object) or line 87 (float of the entry) raises.
RaisesBeforeValidation(a) ==
    \/ Has(a, "json_array")
    \/ FloatRaises(EntryOf(a))

\* Lines 109-110: float(sl) or float(tp) raises.
RaisesAfterValidation(a) ==
    \/ FloatRaises(Get(a, "sl", 0))
    \/ \E i \in 1..Len(TpsOf(a)) : FloatRaises(TpsOf(a)[i])

\* The alert passes lines 101-107.
PassesValidation(a) == ~FieldsRejected(a) /\ IsoParsable(Get(a, "timestamp", ""))

\* label_one_alert raises instead of returning.
LabelRaisesOn(a) ==
    \/ RaisesBeforeValidation(a)
    \/ PassesValidation(a) /\ RaisesAfterValidation(a)

\* out = dict(alert) with the label fields at their defaults.
LabelDefaults ==
    [hit_sl |-> FALSE, hit_tp1 |-> FALSE, hit_tp2 |-> FALSE, hit_tp3 |-> FALSE,
     hit_tp4 |-> FALSE, first_event |-> "NONE", max_tp_reached |-> 0,
     rr_at_max_tp |-> <<0, 1>>]

DefaultOut(a) == LabelDefaults @@ a

\* A touch exactly at the stop-loss not counted.
SlHitLoose(sd, bar, sl) ==
    IF sd = "BUY" THEN bar.low < sl ELSE bar.high > sl

\* The two sides' comparisons exchanged.
SlHitSwapped(sd, bar, sl) ==
    IF sd = "BUY" THEN bar.high >= sl ELSE bar.low <= sl

\* sl_hit: BUY low <= sl, SELL high >= sl.
SlHit(sd, bar, sl) ==
    IF sd = "BUY" THEN bar.low <= sl ELSE bar.high >= sl

\* tp_hits: BUY [high >= tp for tp in tp_levels], SELL [low <= tp ...].
TpHits(sd, bar, tp_levels) ==
    [i \in 1..Len(tp_levels) |->
        IF sd = "BUY" THEN bar.high >= tp_levels[i] ELSE bar.low <= tp_levels[i]]

\* The index at which `for i, hit in enumerate(tp_hits, start=1)` breaks:
\* the first true entry; 0 when no entry is true.
FirstHit(tp_hits) ==
    IF \E i \in 1..Len(tp_hits) : tp_hits[i]
    THEN CHOOSE i \in 1..Len(tp_hits) :
            tp_hits[i] /\ \A j \in 1..(i - 1) : ~tp_hits[j]
    ELSE 0

TpName(i) == <<"TP1", "TP2", "TP3", "TP4">>[i]
HitTpKey(i) == <<"hit_tp1", "hit_tp2", "hit_tp3", "hit_tp4">>[i]
IsTp(ev) == ev \in {"TP1", "TP2", "TP3", "TP4"}
TpNum(ev) == CHOOSE i \in 1..4 : TpName(i) = ev

\* The reward measured from the stop-loss instead of the entry.
RrAtMaxTpFromSl(entry, sl, tp_levels, idx, hit_sl, rr0) ==
    LET risk == Abs(entry - sl)
    IN  IF risk > 0 /\ idx > 0 THEN <<Abs(tp_levels[idx] - sl), risk>>
        ELSE IF risk > 0 /\ hit_sl THEN <<-1, 1>>
        ELSE rr0

\* Lines 172-179: rr_at_max_tp as <<reward, risk>>; rr0 is the value the
\* field already holds, kept when neither branch runs.
RrAtMaxTp(entry, sl, tp_levels, idx, hit_sl, rr0) ==
    LET risk == Abs(entry - sl)
    IN  IF risk > 0 /\ idx > 0 THEN <<Abs(tp_levels[idx] - entry), risk>>
        ELSE IF risk > 0 /\ hit_sl THEN <<-1, 1>>
        ELSE rr0

\* label_one_alert has not been called.
LabelIdle ==
    /\ alert = EmptyDict
    /\ df = <<>>
    /\ l_pc = "idle"
    /\ row = 1
    /\ first_event = "NONE"
    /\ max_tp_idx = 0
    /\ out = EmptyDict

LabelInit ==
    /\ alert \in AlertInputs
    /\ df = <<>>
    /\ l_pc = "start"
    /\ row = 1
    /\ first_event = "NONE"
    /\ max_tp_idx = 0
    /\ out = EmptyDict

\* Lines 84, 87, 109, 110: an exception leaves label_one_alert.
LabelRaises ==
    /\ l_pc = "start"
    /\ LabelRaisesOn(alert)
    /\ l_pc' = "raised"
    /\ UNCHANGED <<alert, df, row, first_event, max_tp_idx, out>>
    /\ UNCHANGED <<scoreVars, scanVars, batchVars, mainVars>>

\* Lines 84-107: the defaults are written, and a rejected alert returns them.
LabelReject ==
    /\ l_pc = "start"
    /\ ~RaisesBeforeValidation(alert)
    /\ ~PassesValidation(alert)
    /\ out' = DefaultOut(alert)
    /\ l_pc' = "done"
    /\ UNCHANGED <<alert, df, row, first_event, max_tp_idx>>
    /\ UNCHANGED <<scoreVars, scanVars, batchVars, mainVars>>

\* Lines 114-118: fetch_future_klines raises.
LabelFetchError ==
    /\ l_pc = "start"
    /\ ~LabelRaisesOn(alert)
    /\ PassesValidation(alert)
    /\ out' = [error |-> "kline_fetch_error"] @@ DefaultOut(alert)
    /\ l_pc' = "done"
    /\ UNCHANGED <<alert, df, row, first_event, max_tp_idx>>
    /\ UNCHANGED <<scoreVars, scanVars, batchVars, mainVars>>

\* Lines 84-122: fetch_future_klines returns a bar series.
LabelFetch ==
    /\ l_pc = "start"
    /\ ~LabelRaisesOn(alert)
    /\ PassesValidation(alert)
    /\ \E series \in FetchedSeries :
          /\ df' = series
          /\ l_pc' = IF Len(series) = 0 THEN "after" ELSE "loop"
    /\ out' = DefaultOut(alert)
    /\ row' = 1
    /\ first_event' = "NONE"
    /\ max_tp_idx' = 0
    /\ UNCHANGED alert
    /\ UNCHANGED <<scoreVars, scanVars, batchVars, mainVars>>

\* Lines 124-154: one pass of `for _, row in df.iterrows()`.
LabelRow ==
    /\ l_pc = "loop"
    /\ row <= Len(df)
    /\ LET bar  == df[row]
           hit  == FirstHit(TpHits(alert.side, bar, TpsOf(alert)))
           final == row = Len(df)
       IN  IF SlHit(alert.side, bar, alert.sl)
           THEN /\ first_event' = "SL"
                /\ l_pc' = "after"
                /\ UNCHANGED max_tp_idx
           ELSE /\ first_event' = IF hit > 0 THEN TpName(hit) ELSE first_event
                /\ max_tp_idx' = IF hit > max_tp_idx THEN hit ELSE max_tp_idx
                /\ l_pc' = IF final THEN "after" ELSE "loop"
    /\ row' = row + 1
    /\ UNCHANGED <<alert, df, out>>
    /\ UNCHANGED <<scoreVars, scanVars, batchVars, mainVars>>

\* Lines 156-181: flags, first_event, max_tp_reached and R:R of the result.
LabelFinish ==
    /\ l_pc = "after"
    /\ LET hit_sl == first_event = "SL"
           idx    == IF hit_sl THEN 0 ELSE max_tp_idx
           o1     == IF hit_sl THEN [out EXCEPT !.hit_sl = TRUE]
                     ELSE IF IsTp(first_event)
                          THEN [out EXCEPT ![HitTpKey(TpNum(first_event))] = TRUE]
                          ELSE out
           rr     == RrAtMaxTp(EntryOf(alert), alert.sl, TpsOf(alert), idx, hit_sl,
                               o1.rr_at_max_tp)
       IN  /\ max_tp_idx' = idx
           /\ out' = IF idx = 0 /\ ~hit_sl
                     THEN [o1 EXCEPT !.first_event = "NONE", !.max_tp_reached = 0,
                                     !.rr_at_max_tp = <<0, 1>>]
                     ELSE [o1 EXCEPT !.first_event = first_event,
                                     !.max_tp_reached = idx,
                                     !.rr_at_max_tp = rr]
    /\ l_pc' = "done"
    /\ UNCHANGED <<alert, df, row, first_event>>
    /\ UNCHANGED <<scoreVars, scanVars, batchVars, mainVars>>

LabelNext ==
    \/ LabelRaises
    \/ LabelReject
    \/ LabelFetchError
    \/ LabelFetch
    \/ LabelRow
    \/ LabelFinish

-----------------------------------------------------------------------------
(* analyze_alerts.main                                                     *)

\* Longest batch of loaded records in the model.
MaxBatch == 2

\* The records of a batch: a valid alert, one without a stop-loss, and the
\* unconvertible ones.
BatchItems ==
    { [timestamp |-> "2024-05-01T12:00:00", symbol |-> "BTC_USDT",
       side |-> "BUY", entry |-> 3, sl |-> 2, tps |-> <<4, 5>>],
      [timestamp |-> "2024-05-01T12:00:00", symbol |-> "BTC_USDT", side |-> "BUY",
       entry |-> 3, tps |-> <<4, 5>>] }
    \cup UnconvertibleAlerts

\* What load_alerts returns: every line that parses as JSON, in file order.
Batches == SeqsUpTo(BatchItems, MaxBatch)

\* main of analyze_alerts.py is not running.
BatchIdle ==
    /\ batch = <<>>
    /\ b_i = 1
    /\ b_pc = "idle"
    /\ all_rows = <<>>
    /\ csv = <<>>

\* Lines 184-197: the alert files are loaded.
BatchInit ==
    /\ batch \in Batches
    /\ b_i = 1
    /\ b_pc = "loop"
    /\ all_rows = <<>>
    /\ csv = <<>>

\* Line 199: label_one_alert(a) is called on the next record.
BatchCall ==
    /\ b_pc = "loop"
    /\ l_pc = "idle"
    /\ b_i <= Len(batch)
    /\ alert' = batch[b_i]
    /\ l_pc' = "start"
    /\ UNCHANGED <<df, row, first_event, max_tp_idx, out>>
    /\ UNCHANGED <<scoreVars, scanVars, batchVars, mainVars>>

\* Lines 199-200: label_one_alert returned; all_rows.append(labeled).
BatchAppend ==
    /\ b_pc = "loop"
    /\ l_pc = "done"
    /\ all_rows' = Append(all_rows, out)
    /\ b_i' = b_i + 1
    /\ alert' = EmptyDict
    /\ df' = <<>>
    /\ l_pc' = "idle"
    /\ row' = 1
    /\ first_event' = "NONE"
    /\ max_tp_idx' = 0
    /\ out' = EmptyDict
    /\ UNCHANGED <<batch, b_pc, csv>>
    /\ UNCHANGED <<scoreVars, scanVars, mainVars>>

\* Line 199: the exception label_one_alert raised leaves main, which has no
\* handler: nothing is written.
BatchRaised ==
    /\ b_pc = "loop"
    /\ l_pc = "raised"
    /\ b_pc' = "raised"
    /\ UNCHANGED <<batch, b_i, all_rows, csv>>
    /\ UNCHANGED <<labelVars, scoreVars, scanVars, mainVars>>

\* Lines 202-209: the loop is over; the rows, if any, are written.
BatchWrite ==
    /\ b_pc = "loop"
    /\ l_pc = "idle"
    /\ b_i > Len(batch)
    /\ IF all_rows = <<>>
       THEN /\ b_pc' = "empty"
            /\ UNCHANGED csv
       ELSE /\ b_pc' = "written"
            /\ csv' = all_rows
    /\ UNCHANGED <<batch, b_i, all_rows>>
    /\ UNCHANGED <<labelVars, scoreVars, scanVars, mainVars>>

BatchNext ==
    \/ BatchCall
    \/ BatchAppend
    \/ BatchRaised
    \/ BatchWrite
    \/ LabelRaises
    \/ LabelReject
    \/ LabelFetchError
    \/ LabelFetch
    \/ LabelRow
    \/ LabelFinish

-----------------------------------------------------------------------------
(* scoring.score_signal                                                    *)

\* The boolean keys of a Feature Set.
FeatureKeys ==
    {"ema_align", "macd_pos", "vol_spike", "ema_down", "macd_neg", "mtf_ema_align",
     "swing_confirm", "breakout", "retest", "bounce_support", "support_retest",
     "fall_resistance"}

\* A weights table with every key score_signal reads, and one for mtf_weights.
FullWeights ==
    [ema_align |-> 25, macd |-> 20, vol_spike |-> 10, breakout |-> 15, retest |-> 7]
FullMtfWeights == [ema |-> 15]

Restrict(d, keys) == [k \in keys |-> d[k]]

\* Weight tables: complete, empty, or with one key missing.
WeightTables ==
    {FullWeights, EmptyDict}
    \cup {Restrict(FullWeights, DOMAIN FullWeights \ {k}) : k \in DOMAIN FullWeights}

\* Weight configurations: each table present or absent from the config.
WeightConfigs ==
    {[weights |-> w, mtf_weights |-> m] : w \in WeightTables,
                                          m \in {FullMtfWeights, EmptyDict}}
    \cup {[mtf_weights |-> m] : m \in {FullMtfWeights, EmptyDict}}
    \cup {[weights |-> w] : w \in WeightTables}
    \cup {EmptyDict}

FeatureSets ==
    {f @@ [ctx_adj |-> c, tags |-> <<"TEST_SIGNAL", "DUMMY_DATA">>] :
        f \in [FeatureKeys -> BOOLEAN], c \in {-5, 0, 5}}

\* base += weights.get(key, 0) when features.get(name) is truthy.
Weighted(f, name, table, key) ==
    IF Get(f, name, FALSE) THEN Get(table, key, 0) ELSE 0

\* final = base + mtf, the context adjustment left out of the sum.
ScoreSignalNoCtx(f, c) ==
    LET weights     == Get(c, "weights", EmptyDict)
        mtf_weights == Get(c, "mtf_weights", EmptyDict)
        base == Weighted(f, "ema_align", weights, "ema_align")
              + Weighted(f, "macd_pos", weights, "macd")
              + Weighted(f, "vol_spike", weights, "vol_spike")
              + Weighted(f, "breakout", weights, "breakout")
              + Weighted(f, "retest", weights, "retest")
              + Weighted(f, "bounce_support", weights, "retest")
              + Weighted(f, "support_retest", weights, "retest")
              + Weighted(f, "fall_resistance", weights, "retest")
        mtf  == Weighted(f, "mtf_ema_align", mtf_weights, "ema")
        ctx  == Get(f, "ctx_adj", 0)
    IN  [final_score |-> base + mtf, base_score |-> base, mtf_score |-> mtf,
         ctx_adj |-> ctx, tags |-> Get(f, "tags", <<>>)]

\* scoring.py lines 29-77.
ScoreSignal(f, c) ==
    LET weights     == Get(c, "weights", EmptyDict)
        mtf_weights == Get(c, "mtf_weights", EmptyDict)
        base == Weighted(f, "ema_align", weights, "ema_align")
              + Weighted(f, "macd_pos", weights, "macd")
              + Weighted(f, "vol_spike", weights, "vol_spike")
              + Weighted(f, "breakout", weights, "breakout")
              + Weighted(f, "retest", weights, "retest")
              + Weighted(f, "bounce_support", weights, "retest")
              + Weighted(f, "support_retest", weights, "retest")
              + Weighted(f, "fall_resistance", weights, "retest")
        mtf  == Weighted(f, "mtf_ema_align", mtf_weights, "ema")
        ctx  == Get(f, "ctx_adj", 0)
    IN  [final_score |-> base + mtf + ctx, base_score |-> base, mtf_score |-> mtf,
         ctx_adj |-> ctx, tags |-> Get(f, "tags", <<>>)]

\* score_signal has not been called.
ScoreIdle ==
    /\ features = EmptyDict
    /\ config = EmptyDict
    /\ scores = EmptyDict

ScoreInit ==
    /\ features \in FeatureSets
    /\ config \in WeightConfigs
    /\ scores = EmptyDict

\* One call score_signal(features, config).
Score ==
    /\ features # EmptyDict
    /\ scores = EmptyDict
    /\ scores' = ScoreSignal(features, config)
    /\ UNCHANGED <<features, config>>
    /\ UNCHANGED <<labelVars, scanVars, batchVars, mainVars>>

-----------------------------------------------------------------------------
(* scanner.analyze_symbol: inputs                                          *)

\* Longest run of freely chosen bars at the end of a primary series.
MaxTail == 2

\* Units to 1 of the fixed-point numbers that stand for the indicators' floats.
FixedPoint == 1000000

\* scanner.py:195-196 -- ema(candles["close"], 20) and ema(candles["close"], 50).
EMA_FAST == 20
EMA_SLOW == 50

\* indicators.py:28-31 -- the spans of macd_hist.
MACD_FAST == 12
MACD_SLOW == 26
MACD_SIGNAL == 9

\* scanner.py:210 -- the lookback window of the reference levels.
window == 20

\* scanner.py:198 -- atr(candles, 14).
ATR_LENGTH == 14

\* scanner.py:199 -- candles["volume"].rolling(20, min_periods=1).
VOL_SMA_LENGTH == 20

\* scanner.py:242 -- candles.iloc[-6:-1], the 5 candles before the current.
RECENT_BARS == 5

\* scanner.py:194 -- fetch_klines(symbol, TF_PRIMARY, 50).
KLINE_LIMIT == 50

\* scanner.py:226 -- min_move_pct default 0.5, in tenths of a percent.
MIN_MOVE_PCT_X10 == 5

\* scanner.py:44 -- VOL_SPIKE_MULT default 1.5, doubled.
VOL_SPIKE_MULT_X2 == 3

\* scanner.py:48 -- ATR_SL_MULT default 1.5, doubled.
ATR_SL_MULT_X2 == 3

\* scanner.py:56 -- alert_threshold_aggressive default.
ALERT_THRESHOLD == 65

\* scanner.py:379 -- tp_multipliers default [2.0, 3.0, 4.5, 6.0], doubled.
TP_MULTIPLIERS_X2 == <<4, 6, 9, 12>>

\* Price grid of the primary-timeframe bars.
ScanPrices == 1..3

\* Primary-timeframe bars; a bar with a range trades the larger volume.
CandleBars ==
    {[high |-> h, low |-> l, close |-> c, volume |-> IF h > l THEN 4 ELSE 1] :
        h \in ScanPrices, l \in ScanPrices, c \in ScanPrices}
    \ {b \in [high : ScanPrices, low : ScanPrices, close : ScanPrices, volume : {1, 4}] :
        b.low > b.close \/ b.close > b.high}

\* The bars that fill the history before the freely chosen tail.
FillerBars ==
    {[high |-> 2, low |-> 2, close |-> 2, volume |-> 1],
     [high |-> 3, low |-> 1, close |-> 2, volume |-> 4]}

Fill(bar, n) == [i \in 1..n |-> bar]

Tails == SeqsUpTo(CandleBars, MaxTail) \ {<<>>}

\* What fetch_klines returns: a non-empty series of at most KLINE_LIMIT bars,
\* either a short one or one with a full window of history before its tail.
CandleInputs ==
    {c \in Tails \cup {Fill(f, window) \o t : f \in FillerBars, t \in Tails} :
        Len(c) <= KLINE_LIMIT}

\* The primary series the bar provider returns during a run of main: a rising
\* pair of bars, a flat pair and a falling pair.
MainCandles ==
    { << [high |-> 1, low |-> 1, close |-> 1, volume |-> 1],
         [high |-> 2, low |-> 1, close |-> 2, volume |-> 4] >>,
      << [high |-> 1, low |-> 1, close |-> 1, volume |-> 1],
         [high |-> 1, low |-> 1, close |-> 1, volume |-> 1] >>,
      << [high |-> 2, low |-> 1, close |-> 2, volume |-> 4],
         [high |-> 1, low |-> 1, close |-> 1, volume |-> 1] >> }

\* What fetch_klines returns for the primary timeframe.
FetchedCandles == IF m_pc = "idle" THEN CandleInputs ELSE MainCandles

\* Lines 29-32: the symbol list, here the fallback of a config without one.
SYMBOLS == <<"BTC_USDT", "ETH_USDT", "SOL_USDT">>

\* Python None.
PyNone == [py_none |-> TRUE]

\* A config.yaml with weights, mtf_weights and context values.
FullConfig ==
    [weights |-> FullWeights, mtf_weights |-> FullMtfWeights,
     context |-> [btc_align |-> 5, btc_oppose |-> -5]]

\* What load_config() returns: the parsed mapping, or None for an empty file.
ScanConfigs == {FullConfig, PyNone}

\* CONFIG = yaml.safe_load(f) or {}
GlobalConfig == IF config = PyNone THEN EmptyDict ELSE config

-----------------------------------------------------------------------------
(* scanner.analyze_symbol: detection (lines 194-286)                       *)

MaxOf(S) == CHOOSE x \in S : \A y \in S : y <= x
MinOf(S) == CHOOSE x \in S : \A y \in S : x <= y

\* indicators.ema: series.ewm(span=length, adjust=False).mean() at row i of a
\* series x, seeded with the first value; floats are fixed-point numbers with
\* FixedPoint units to 1.
RECURSIVE Ema(_, _, _)
Ema(x, length, i) ==
    IF i = 1 THEN x[1]
    ELSE LET prev == Ema(x, length, i - 1)
         IN  prev + (2 * (x[i] - prev)) \div (length + 1)

\* The close column, in fixed point.
Closes(c) == [i \in 1..Len(c) |-> c[i].close * FixedPoint]

\* indicators.macd_hist at the last row: (e12 - e26) minus its span-9 EMA.
MacdHist(c) ==
    LET x         == Closes(c)
        macd_line == [i \in 1..Len(c) |->
                        Ema(x, MACD_FAST, i) - Ema(x, MACD_SLOW, i)]
    IN  macd_line[Len(c)] - Ema(macd_line, MACD_SIGNAL, Len(c))

\* Lines 195-197 and 201: the last row with its indicator columns.
LastRow(c) ==
    c[Len(c)] @@
    [ema20 |-> Ema(Closes(c), EMA_FAST, Len(c)),
     ema50 |-> Ema(Closes(c), EMA_SLOW, Len(c)),
     macd_hist |-> MacdHist(c)]

\* indicators.atr: the true range of bar i (the first bar has no previous close).
TrueRange(c, i) ==
    LET hl == c[i].high - c[i].low
    IN  IF i = 1 THEN hl
        ELSE Max(hl, Max(Abs(c[i].high - c[i - 1].close),
                         Abs(c[i].low - c[i - 1].close)))

RECURSIVE SumTrueRange(_, _, _)
SumTrueRange(c, lo, hi) ==
    IF lo > hi THEN 0 ELSE TrueRange(c, hi) + SumTrueRange(c, lo, hi - 1)

\* atr(candles, 14).iloc[-1]: rolling mean with min_periods=1, as <<sum, count>>.
LastAtr(c) ==
    LET lo == Max(1, Len(c) - ATR_LENGTH + 1)
    IN  <<SumTrueRange(c, lo, Len(c)), Len(c) - lo + 1>>

RECURSIVE SumVolume(_, _, _)
SumVolume(c, lo, hi) ==
    IF lo > hi THEN 0 ELSE c[hi].volume + SumVolume(c, lo, hi - 1)

\* candles["vol_sma20"].iloc[-1], as <<sum, count>>.
LastVolSma(c) ==
    LET lo == Max(1, Len(c) - VOL_SMA_LENGTH + 1)
    IN  <<SumVolume(c, lo, Len(c)), Len(c) - lo + 1>>

\* Lines 213-224: iloc[-(window + 1):-1] when the series is longer than
\* window + 1, the whole series otherwise.
LevelRows(c) ==
    IF Len(c) > window + 1 THEN (Len(c) - window)..(Len(c) - 1) ELSE 1..Len(c)

Resistance(c) == MaxOf({c[i].high : i \in LevelRows(c)})
Support(c) == MinOf({c[i].low : i \in LevelRows(c)})

\* x <= level + atr * 0.5, with atr = <<sum, count>>.
AtMostHalfAtrAbove(x, level, atr) == 2 * atr[2] * x <= 2 * atr[2] * level + atr[1]

\* x >= level - atr * 0.5.
AtLeastHalfAtrBelow(x, level, atr) == 2 * atr[2] * x >= 2 * atr[2] * level - atr[1]

\* Line 229: last_close > resistance * (1 + min_move_pct / 100.0).
Breakout(l, resistance) == l.close * 1000 > resistance * (1000 + MIN_MOVE_PCT_X10)

\* Lines 234-238.
BounceFromSupport(l, support, atr, breakout) ==
    /\ AtMostHalfAtrAbove(l.low, support, atr)
    /\ l.close > support
    /\ ~breakout

\* The slice that also takes in the current candle.
RecentRowsWithCurrent(c) == Max(1, Len(c) - RECENT_BARS)..Len(c)

\* Line 242: candles.iloc[-6:-1].
RecentRows(c) == Max(1, Len(c) - RECENT_BARS)..(Len(c) - 1)

\* Lines 246-247: had_recent_bounce.
HadRecentBounce(c, support, atr) ==
    \E i \in RecentRows(c) :
        AtMostHalfAtrAbove(c[i].low, support, atr) /\ c[i].close > support

\* Lines 250-256.
SupportRetest(c, l, support, atr, breakout) ==
    /\ HadRecentBounce(c, support, atr)
    /\ AtMostHalfAtrAbove(l.low, support, atr)
    /\ l.close > support
    /\ l.close >= c[Len(c) - 1].close
    /\ ~breakout

\* Lines 261-265.
FallFromResistance(l, resistance, atr, breakout) ==
    /\ AtLeastHalfAtrBelow(l.high, resistance, atr)
    /\ l.close < resistance
    /\ ~breakout

\* The retest test without its breakout guard.
RetestUnguarded(l, resistance, atr, breakout) ==
    /\ AtMostHalfAtrAbove(l.low, resistance, atr)
    /\ l.close >= resistance

\* Lines 271-275.
Retest(l, resistance, atr, breakout) ==
    /\ AtMostHalfAtrAbove(l.low, resistance, atr)
    /\ l.close >= resistance
    /\ ~breakout

\* Lines 201-286: every local the detection block leaves behind.
Detect(c, l) ==
    LET atr        == LastAtr(c)
        sma        == LastVolSma(c)
        resistance == Resistance(c)
        support    == Support(c)
        breakout   == Breakout(l, resistance)
    IN  [last_atr |-> atr, last_close |-> l.close, last_low |-> l.low,
         last_high |-> l.high, resistance |-> resistance, support |-> support,
         breakout |-> breakout,
         bounce_from_support |-> BounceFromSupport(l, support, atr, breakout),
         support_retest |-> SupportRetest(c, l, support, atr, breakout),
         fall_from_resistance |-> FallFromResistance(l, resistance, atr, breakout),
         retest |-> Retest(l, resistance, atr, breakout),
         ema_align |-> l.close * FixedPoint > l.ema20 /\ l.ema20 > l.ema50,
         macd_pos |-> l.macd_hist > 0,
         ema_down |-> l.close * FixedPoint < l.ema20 /\ l.ema20 < l.ema50,
         macd_neg |-> l.macd_hist < 0,
         vol_spike |-> l.volume * sma[2] * 2 > sma[1] * VOL_SPIKE_MULT_X2]

-----------------------------------------------------------------------------
(* scanner.analyze_symbol: side, features, levels, record                  *)

\* Lines 318-323.
DecideSide(d) ==
    IF d.ema_align /\ d.macd_pos THEN "BUY"
    ELSE IF d.ema_down /\ d.macd_neg THEN "SELL"
    ELSE "NONE"

\* Lines 338-352: the tags of the true flags, in evaluation order.
TagsOf(d, tf15) ==
    LET flags == << <<"EMA", d.ema_align>>, <<"MACD", d.macd_pos>>,
                    <<"VOL", d.vol_spike>>, <<"TF15", tf15>>, <<"BO", d.breakout>>,
                    <<"RT", d.retest>>, <<"BSUP", d.bounce_from_support>>,
                    <<"SRT", d.support_retest>>, <<"FRES", d.fall_from_resistance>> >>
        on(p) == p[2]
        kept  == SelectSeq(flags, on)
    IN  [i \in 1..Len(kept) |-> kept[i][1]]

\* Lines 326-353: features_for_scoring.
FeaturesForScoring(d, tf15, swing, ctx) ==
    [ema_align |-> d.ema_align, macd_pos |-> d.macd_pos, vol_spike |-> d.vol_spike,
     mtf_ema_align |-> tf15, swing_confirm |-> swing, breakout |-> d.breakout,
     retest |-> d.retest, bounce_support |-> d.bounce_from_support,
     support_retest |-> d.support_retest, fall_resistance |-> d.fall_from_resistance,
     ctx_adj |-> ctx, tags |-> TagsOf(d, tf15)]

\* A price level as a ratio over twice the ATR's bar count.
Level(close, atr, mult_x2) == <<2 * atr[2] * close + mult_x2 * atr[1], 2 * atr[2]>>

\* Lines 371-391: entry = last_close for every side; sl and tps by side.  A
\* level that is None is a key the result does not have.
Levels(d, sd) ==
    IF sd = "BUY"
    THEN [entry |-> Level(d.last_close, d.last_atr, 0),
          sl |-> Level(d.last_close, d.last_atr, -ATR_SL_MULT_X2),
          tps |-> [i \in DOMAIN TP_MULTIPLIERS_X2 |->
                      Level(d.last_close, d.last_atr, TP_MULTIPLIERS_X2[i])]]
    ELSE IF sd = "SELL"
    THEN [entry |-> Level(d.last_close, d.last_atr, 0),
          sl |-> Level(d.last_close, d.last_atr, ATR_SL_MULT_X2),
          tps |-> [i \in DOMAIN TP_MULTIPLIERS_X2 |->
                      Level(d.last_close, d.last_atr, -TP_MULTIPLIERS_X2[i])]]
    ELSE [entry |-> Level(d.last_close, d.last_atr, 0), tps |-> <<>>]

\* Lines 397-419: the Signal Record.
SignalRecord(sym, d, tf15, ctx, sd, sc, lv, tags) ==
    lv @@
    [timestamp |-> "2024-05-01T12:00:00", symbol |-> sym,
     final_score |-> sc.final_score, base_score |-> sc.base_score, side |-> sd,
     tags |-> tags, ema_align |-> d.ema_align, macd_pos |-> d.macd_pos,
     vol_spike |-> d.vol_spike, tf15_confirm |-> tf15, btc_ctx |-> ctx,
     breakout |-> d.breakout, retest |-> d.retest,
     bounce_support |-> d.bounce_from_support, support_retest |-> d.support_retest,
     fall_resistance |-> d.fall_from_resistance, resistance |-> d.resistance,
     support |-> d.support]

\* The key of a dict when it is set, nothing otherwise (a JSON null).
Optional(d, k) == IF Has(d, k) THEN k :> d[k] ELSE EmptyDict

\* Lines 86-107: the line log_signal writes.
LogLine(r) ==
    [timestamp |-> r.timestamp, symbol |-> r.symbol, final_score |-> r.final_score,
     base_score |-> r.base_score, side |-> r.side, tags |-> r.tags,
     ema_align |-> r.ema_align, macd_pos |-> r.macd_pos, vol_spike |-> r.vol_spike,
     tf15_confirm |-> r.tf15_confirm,
     swing_confirm |-> Get(r, "swing_confirm", FALSE),
     btc_ctx |-> r.btc_ctx, breakout |-> r.breakout, retest |-> r.retest,
     resistance |-> r.resistance, support |-> r.support]
    @@ Optional(r, "entry") @@ Optional(r, "sl")
    @@ Optional(r, "tp1") @@ Optional(r, "tp2")

-----------------------------------------------------------------------------
(* scanner.analyze_symbol: the steps                                       *)

ScanIdle ==
    /\ symbol = ""
    /\ s_pc = "idle"
    /\ candles = <<>>
    /\ last = EmptyDict
    /\ det = EmptyDict
    /\ tf15_confirm = FALSE
    /\ swing_confirm = FALSE
    /\ btc_ctx = 0
    /\ side = "NONE"
    /\ record = EmptyDict
    /\ log = <<>>
    /\ sent = <<>>
    /\ warnings = {}

\* main of scanner.py is not running.
MainIdle ==
    /\ symbols = <<>>
    /\ m_i = 1
    /\ m_pc = "idle"

ScanInit ==
    /\ symbol = "ETH_USDT"
    /\ s_pc = "start"
    /\ candles = <<>>
    /\ last = EmptyDict
    /\ det = EmptyDict
    /\ tf15_confirm = FALSE
    /\ swing_confirm = FALSE
    /\ btc_ctx = 0
    /\ side = "NONE"
    /\ record = EmptyDict
    /\ log = <<>>
    /\ sent = <<>>
    /\ warnings = {}
    /\ config \in ScanConfigs
    /\ features = EmptyDict
    /\ scores = EmptyDict

\* Lines 192-290: the fetch raises, or the series has no candles.iloc[-2].
ScanDetectFail ==
    /\ s_pc = "start"
    /\ s_pc' = "abandoned"
    /\ candles' \in {<<>>} \cup {c \in FetchedCandles : Len(c) < 2}
    /\ UNCHANGED <<symbol, last, det, tf15_confirm, swing_confirm, btc_ctx, side,
                   record, log, sent>>
    /\ UNCHANGED <<labelVars, scoreVars, batchVars, mainVars, warnings>>

\* Lines 192-286: the primary series is fetched and the flags computed.
ScanDetect ==
    /\ s_pc = "start"
    /\ \E c \in FetchedCandles :
          /\ Len(c) >= 2
          /\ candles' = c
          /\ last' = LastRow(c)
          /\ det' = Detect(c, LastRow(c))
    /\ s_pc' = "detected"
    /\ UNCHANGED <<symbol, tf15_confirm, swing_confirm, btc_ctx, side, record, log, sent>>
    /\ UNCHANGED <<labelVars, scoreVars, batchVars, mainVars, warnings>>

\* A failed check counted as a confirmation.
FlagOfConfirmsOnError(outcome) == outcome # "false"

\* The flag a confirmation check yields: its result, False when it raised.
FlagOf(outcome) == outcome = "true"

\* The warning an except block prints when the component raised.
Warned(printed, component, outcome) ==
    IF outcome = "error" THEN printed \cup {component} ELSE printed

\* Lines 293-297: compute_tf15_confirm returns a flag, or raises and the
\* flag is False.
ScanConfirm ==
    /\ s_pc = "detected"
    /\ \E outcome \in {"true", "false", "error"} :
          /\ tf15_confirm' = FlagOf(outcome)
          /\ warnings' = Warned(warnings, "confirm", outcome)
    /\ s_pc' = "confirmed"
    /\ UNCHANGED <<symbol, candles, last, det, swing_confirm, btc_ctx, side, record,
                   log, sent>>
    /\ UNCHANGED <<labelVars, scoreVars, batchVars, mainVars>>

\* Line 300 and lines 133-152: compute_swing_confirm, False on any error.
ScanSwing ==
    /\ s_pc = "confirmed"
    /\ \E outcome \in {"true", "false", "error"} :
          /\ swing_confirm' = FlagOf(outcome)
          /\ warnings' = Warned(warnings, "swing", outcome)
    /\ s_pc' = "swung"
    /\ UNCHANGED <<symbol, candles, last, det, tf15_confirm, btc_ctx, side, record,
                   log, sent>>
    /\ UNCHANGED <<labelVars, scoreVars, batchVars, mainVars>>

\* Line 314 and lines 155-188: compute_btc_context, 0 on any error.
ScanBtc ==
    /\ s_pc = "swung"
    /\ \E trend \in {"up", "down", "flat", "error"} :
          LET ctx_cfg == Get(GlobalConfig, "context", EmptyDict)
          IN  /\ btc_ctx' = IF trend = "up" THEN Get(ctx_cfg, "btc_align", 0)
                             ELSE IF trend = "down" THEN Get(ctx_cfg, "btc_oppose", 0)
                             ELSE 0
              /\ warnings' = Warned(warnings, "btc", trend)
    /\ s_pc' = "context"
    /\ UNCHANGED <<symbol, candles, last, det, tf15_confirm, swing_confirm, side,
                   record, log, sent>>
    /\ UNCHANGED <<labelVars, scoreVars, batchVars, mainVars>>

\* Lines 317-363: side, features_for_scoring and the scores; score_signal
\* raising (config is None) leaves both scores 0.
ScanScore ==
    /\ s_pc = "context"
    /\ side' = DecideSide(det)
    /\ features' = FeaturesForScoring(det, tf15_confirm, swing_confirm, btc_ctx)
    /\ scores' = IF config = PyNone
                 THEN [base_score |-> 0, final_score |-> 0]
                 ELSE ScoreSignal(features', config)
    /\ s_pc' = "scored"
    /\ UNCHANGED <<symbol, candles, last, det, tf15_confirm, swing_confirm, btc_ctx,
                   record, log, sent, config>>
    /\ UNCHANGED <<labelVars, batchVars, mainVars, warnings>>

\* Lines 371-421: the levels, the record, and log_signal(record).
ScanLog ==
    /\ s_pc = "scored"
    /\ record' = SignalRecord(symbol, det, tf15_confirm, btc_ctx, side, scores,
                              Levels(det, side), features.tags)
    /\ log' = Append(log, LogLine(record'))
    /\ s_pc' = "logged"
    /\ UNCHANGED <<symbol, candles, last, det, tf15_confirm, swing_confirm, btc_ctx,
                   side, sent>>
    /\ UNCHANGED <<labelVars, scoreVars, batchVars, mainVars, warnings>>

\* No alert only when both tests hold.
NoAlertWhenBoth(final_score, sd) == final_score < ALERT_THRESHOLD /\ sd = "NONE"

\* Line 423: if final_score < threshold or side == "NONE"
NoAlert(final_score, sd) == final_score < ALERT_THRESHOLD \/ sd = "NONE"

\* Lines 423-425: below the threshold or no direction, no alert.
ScanNoAlert ==
    /\ s_pc = "logged"
    /\ NoAlert(record.final_score, side)
    /\ s_pc' = "done"
    /\ UNCHANGED <<symbol, candles, last, det, tf15_confirm, swing_confirm, btc_ctx,
                   side, record, log, sent>>
    /\ UNCHANGED <<labelVars, scoreVars, batchVars, mainVars, warnings>>

\* Lines 427-445 and 66-79: the text is built and send_telegram prints or
\* posts it.
ScanAlert ==
    /\ s_pc = "logged"
    /\ ~NoAlert(record.final_score, side)
    /\ sent' = Append(sent, [symbol |-> symbol, side |-> side,
                             score |-> record.final_score,
                             tps |-> record.tps, tags |-> features.tags]
                            @@ Optional(record, "entry") @@ Optional(record, "sl"))
    /\ s_pc' = "done"
    /\ UNCHANGED <<symbol, candles, last, det, tf15_confirm, swing_confirm, btc_ctx,
                   side, record, log>>
    /\ UNCHANGED <<labelVars, scoreVars, batchVars, mainVars, warnings>>

\* Line 78: requests.post raises out of send_telegram and analyze_symbol.
ScanAlertRaises ==
    /\ s_pc = "logged"
    /\ ~NoAlert(record.final_score, side)
    /\ s_pc' = "raised"
    /\ UNCHANGED <<symbol, candles, last, det, tf15_confirm, swing_confirm, btc_ctx,
                   side, record, log, sent>>
    /\ UNCHANGED <<labelVars, scoreVars, batchVars, mainVars, warnings>>

\* Lines 448-453: main has loaded the config and the symbol list.
MainInit ==
    /\ symbols = SYMBOLS
    /\ m_i = 1
    /\ m_pc = "loop"
    /\ config \in ScanConfigs
    /\ features = EmptyDict
    /\ scores = EmptyDict
    /\ ScanIdle

\* Lines 454-455: analyze_symbol(symbol, config) is called on the next symbol.
MainCall ==
    /\ m_pc = "loop"
    /\ s_pc = "idle"
    /\ m_i <= Len(symbols)
    /\ symbol' = symbols[m_i]
    /\ s_pc' = "start"
    /\ UNCHANGED <<candles, last, det, tf15_confirm, swing_confirm, btc_ctx, side,
                   record, log, sent, warnings>>
    /\ UNCHANGED <<labelVars, scoreVars, batchVars, mainVars>>

\* Lines 454-455: analyze_symbol returned; its locals are gone.
MainReturn ==
    /\ m_pc = "loop"
    /\ s_pc \in {"done", "abandoned"}
    /\ m_i' = m_i + 1
    /\ symbol' = ""
    /\ s_pc' = "idle"
    /\ candles' = <<>>
    /\ last' = EmptyDict
    /\ det' = EmptyDict
    /\ tf15_confirm' = FALSE
    /\ swing_confirm' = FALSE
    /\ btc_ctx' = 0
    /\ side' = "NONE"
    /\ record' = EmptyDict
    /\ features' = EmptyDict
    /\ scores' = EmptyDict
    /\ UNCHANGED <<log, sent, warnings, config, symbols, m_pc>>
    /\ UNCHANGED <<labelVars, batchVars>>

\* Line 455: the exception analyze_symbol raised leaves main, which has no
\* handler: the symbols that follow are not analysed.
MainRaised ==
    /\ m_pc = "loop"
    /\ s_pc = "raised"
    /\ m_pc' = "raised"
    /\ UNCHANGED <<symbols, m_i>>
    /\ UNCHANGED <<labelVars, scoreVars, scanVars, batchVars>>

\* Line 454: the symbol list is exhausted.
MainEnd ==
    /\ m_pc = "loop"
    /\ s_pc = "idle"
    /\ m_i > Len(symbols)
    /\ m_pc' = "finished"
    /\ UNCHANGED <<symbols, m_i>>
    /\ UNCHANGED <<labelVars, scoreVars, scanVars, batchVars>>

ScanNext ==
    \/ ScanDetectFail
    \/ ScanDetect
    \/ ScanConfirm
    \/ ScanSwing
    \/ ScanBtc
    \/ ScanScore
    \/ ScanLog
    \/ ScanNoAlert
    \/ ScanAlert
    \/ ScanAlertRaises

MainNext ==
    \/ MainCall
    \/ MainReturn
    \/ MainRaised
    \/ MainEnd
    \/ ScanDetectFail
    \/ ScanDetect
    \/ ScanConfirm
    \/ ScanSwing
    \/ ScanBtc
    \/ ScanScore
    \/ ScanLog
    \/ ScanNoAlert
    \/ ScanAlert
    \/ ScanAlertRaises

-----------------------------------------------------------------------------
(* Specifications                                                          *)

\* main of analyze_alerts.py calls label_one_alert on a loaded alert.
InitLabel == LabelInit /\ ScoreIdle /\ ScanIdle /\ BatchIdle /\ MainIdle

SpecLabel == InitLabel /\ [][LabelNext]_vars

\* score_signal is called on a Feature Set and a weight configuration.
InitScore == ScoreInit /\ LabelIdle /\ ScanIdle /\ BatchIdle /\ MainIdle

SpecScore == InitScore /\ [][Score]_vars

\* main of scanner.py calls analyze_symbol on a symbol.
InitScan == ScanInit /\ LabelIdle /\ BatchIdle /\ MainIdle

SpecScan == InitScan /\ [][ScanNext]_vars

\* main of scanner.py scans the symbol list.
InitMain == MainInit /\ LabelIdle /\ BatchIdle

SpecMain == InitMain /\ [][MainNext]_vars

\* main of analyze_alerts.py labels a batch of loaded records.
InitBatch == BatchInit /\ LabelIdle /\ ScoreIdle /\ ScanIdle /\ MainIdle

SpecBatch == InitBatch /\ [][BatchNext]_vars

-----------------------------------------------------------------------------
(* Outcome labeling: the claims' vocabulary, stated on the alert and the   *)
(* fetched bars alone.                                                     *)

\* label_one_alert ran its scan to the end on a valid alert.
Labelled ==
    /\ l_pc = "done"
    /\ alert \in ValidAlerts
    /\ ~Has(out, "error")

\* The bar touches the stop-loss (BUY: low <= SL; SELL: high >= SL).
TouchesSL(bar) ==
    \/ alert.side = "BUY" /\ bar.low <= alert.sl
    \/ alert.side = "SELL" /\ bar.high >= alert.sl

\* The bar touches take-profit level i of the ladder.
TouchesTP(bar, i) ==
    \/ alert.side = "BUY" /\ bar.high >= alert.tps[i]
    \/ alert.side = "SELL" /\ bar.low <= alert.tps[i]

Ladder == 1..Len(alert.tps)

TouchesAny(bar) == TouchesSL(bar) \/ \E i \in Ladder : TouchesTP(bar, i)

\* k is the earliest bar in which any level is touched.
FirstTouchAt(k) ==
    /\ k \in 1..Len(df)
    /\ TouchesAny(df[k])
    /\ \A j \in 1..(k - 1) : ~TouchesAny(df[j])

NoSLInHorizon == \A k \in 1..Len(df) : ~TouchesSL(df[k])

\* Highest ladder index touched by any bar of the horizon, 0 when none is.
HighestTouched ==
    LET touched == {i \in Ladder : \E k \in 1..Len(df) : TouchesTP(df[k], i)}
    IN  IF touched = {} THEN 0 ELSE CHOOSE i \in touched : \A j \in touched : j <= i

\* C1: when the first bar in which any level is touched touches the
\* stop-loss, the scan stops at that bar and the result is first_event = "SL",
\* hit_sl = true, max_tp_reached = 0, whatever take-profit levels that bar or
\* any later bar touches.
C1_SLFirstWins ==
    Labelled =>
        \A k \in 1..Len(df) :
            (FirstTouchAt(k) /\ TouchesSL(df[k])) =>
                /\ out.first_event = "SL"
                /\ out.hit_sl = TRUE
                /\ out.max_tp_reached = 0
                /\ row = k + 1

\* C1 witness: the first touched bar touches the stop-loss and a take-profit
\* level at once, and later bars follow it.
C1_Witness ==
    /\ Labelled
    /\ Len(df) >= 2
    /\ FirstTouchAt(1)
    /\ TouchesSL(df[1])
    /\ \E i \in Ladder : TouchesTP(df[1], i)
    /\ out.first_event = "SL"

\* C2: when no bar of the horizon touches the stop-loss, max_tp_reached is
\* the highest take-profit index touched in any bar of the horizon.
C2_MaxTpIsHighestTouched ==
    (Labelled /\ NoSLInHorizon) => out.max_tp_reached = HighestTouched

\* C3: first_event names the event of the earliest touched bar: once a bar
\* has set it to "TP{i}", no later bar changes it in the returned result.
C3_FirstEventIsEarliest ==
    Labelled =>
        \A k \in 1..Len(df) :
            (FirstTouchAt(k) /\ ~TouchesSL(df[k])) =>
                \E i \in Ladder :
                    /\ TouchesTP(df[k], i)
                    /\ \A j \in 1..(i - 1) : ~TouchesTP(df[k], j)
                    /\ out.first_event = TpName(i)

\* C4: when no bar touches the stop-loss or any take-profit level (an empty
\* series included), the result is first_event = "NONE", max_tp_reached = 0,
\* rr_at_max_tp = 0.0, and hit_sl and every hit_tp flag are false.
C4_NoTouchIsNone ==
    (Labelled /\ \A k \in 1..Len(df) : ~TouchesAny(df[k])) =>
        /\ out.first_event = "NONE"
        /\ out.max_tp_reached = 0
        /\ out.rr_at_max_tp = <<0, 1>>
        /\ out.hit_sl = FALSE
        /\ \A i \in 1..4 : out[HitTpKey(i)] = FALSE

\* C4 witness: a non-empty horizon of bars that stay strictly between the
\* stop-loss and the first take-profit level.
C4_Witness ==
    /\ Labelled
    /\ Len(df) >= 2
    /\ Len(alert.tps) >= 1
    /\ \A k \in 1..Len(df) : ~TouchesAny(df[k])
    /\ out.first_event = "NONE"

\* label_one_alert ran its scan to the end on an alert that passed the field
\* validation.
Validated ==
    /\ l_pc = "done"
    /\ alert \in ValidAlerts \cup ZeroRiskAlerts
    /\ ~Has(out, "error")

\* The float x equals num / den.
IsRatio(x, num, den) == den # 0 /\ x[2] # 0 /\ x[1] * den = num * x[2]

\* C11 as stated: for every alert that passes the field validation,
\* max_tp_reached = k > 0 gives rr_at_max_tp = |TP_k - entry| / |entry - sl|,
\* and a stop-loss outcome (hit_sl, max_tp_reached = 0) gives -1.0.
C11_RiskRewardAtBest ==
    Validated =>
        /\ out.max_tp_reached > 0 =>
              IsRatio(out.rr_at_max_tp,
                      Abs(alert.tps[out.max_tp_reached] - alert.entry),
                      Abs(alert.entry - alert.sl))
        /\ (out.hit_sl /\ out.max_tp_reached = 0) =>
              IsRatio(out.rr_at_max_tp, -1, 1)

\* C11 amended: the same for alerts whose entry differs from the stop-loss;
\* when entry = stop-loss (risk 0) rr_at_max_tp stays 0.0.
C11_RiskRewardWhenRisk ==
    Validated =>
        IF alert.entry # alert.sl
        THEN /\ out.max_tp_reached > 0 =>
                   IsRatio(out.rr_at_max_tp,
                           Abs(alert.tps[out.max_tp_reached] - alert.entry),
                           Abs(alert.entry - alert.sl))
             /\ (out.hit_sl /\ out.max_tp_reached = 0) =>
                   IsRatio(out.rr_at_max_tp, -1, 1)
        ELSE IsRatio(out.rr_at_max_tp, 0, 1)

\* C11 witness: a take-profit outcome on a two-level ladder with risk > 0,
\* the bars never touching the stop-loss.
C11_Witness ==
    /\ Validated
    /\ alert.entry # alert.sl
    /\ Len(alert.tps) = 2
    /\ out.max_tp_reached > 0
    /\ ~out.hit_sl
    /\ IsRatio(out.rr_at_max_tp, 1, 1)

\* C13: an alert that lacks a timestamp, a symbol, a side in {BUY, SELL}, an
\* entry (missing or zero) or a stop-loss, or whose timestamp does not parse,
\* returns with every label field at its default and its own fields copied
\* unchanged, no forward bars having been fetched and nothing raised.
C13_MalformedGetsDefaults ==
    alert \in MalformedAlerts =>
        /\ l_pc \in {"start", "done"}
        /\ df = <<>>
        /\ l_pc = "done" =>
              /\ out.hit_sl = FALSE
              /\ \A i \in 1..4 : out[HitTpKey(i)] = FALSE
              /\ out.first_event = "NONE"
              /\ out.max_tp_reached = 0
              /\ IsRatio(out.rr_at_max_tp, 0, 1)
              /\ ~Has(out, "error")
              /\ \A k \in DOMAIN alert : Has(out, k) /\ out[k] = alert[k]

\* C13 witness: an alert with a stop-loss and a ladder but a zero or missing
\* entry has been returned with its defaults.
C13_Witness ==
    /\ l_pc = "done"
    /\ alert \in MalformedAlerts
    /\ Has(alert, "sl")
    /\ Get(alert, "side", "") = "SELL"
    /\ Get(alert, "entry", 0) = 0
    /\ out.first_event = "NONE"

\* A record of the batch that label_one_alert can read.
Readable(a) == a \notin UnconvertibleAlerts

\* main of analyze_alerts.py has ended, by returning or by an exception.
BatchEnded == b_pc \in {"written", "empty", "raised"}

\* The csv holds a row that carries the fields of the record.
Written(a) ==
    \E j \in 1..Len(csv) : \A k \in DOMAIN a : Has(csv[j], k) /\ csv[j][k] = a[k]

\* C14: whatever records of the batch fail to be labelled (bad field value,
\* non-object line, fetch error), every other record of the batch is labelled
\* and written to the output.
C14_BatchIsolatesFailures ==
    BatchEnded =>
        /\ \A i \in 1..Len(batch) : Readable(batch[i]) => Written(batch[i])
        /\ Len(csv) >= Cardinality({i \in 1..Len(batch) : Readable(batch[i])})

-----------------------------------------------------------------------------
(* Scoring: the claims                                                     *)

\* The weight the configuration gives a key of a table; 0 when the table or
\* the key is missing.
ConfiguredWeight(table, key) ==
    IF table \in DOMAIN config /\ key \in DOMAIN config[table]
    THEN config[table][key] ELSE 0

Scored == scores # EmptyDict

\* C5: final_score = base_score + mtf_score + ctx_adj for every Feature Set
\* and every weight configuration, a missing table or key contributing 0:
\* base_score is the sum of the configured weights of the true features.
C5_FinalIsSum ==
    Scored =>
        /\ scores.final_score = scores.base_score + scores.mtf_score + scores.ctx_adj
        /\ scores.ctx_adj = features.ctx_adj
        /\ scores.base_score =
              (IF features.ema_align THEN ConfiguredWeight("weights", "ema_align") ELSE 0)
            + (IF features.macd_pos THEN ConfiguredWeight("weights", "macd") ELSE 0)
            + (IF features.vol_spike THEN ConfiguredWeight("weights", "vol_spike") ELSE 0)
            + (IF features.breakout THEN ConfiguredWeight("weights", "breakout") ELSE 0)
            + Cardinality({k \in {"retest", "bounce_support", "support_retest",
                                  "fall_resistance"} : features[k]})
              * ConfiguredWeight("weights", "retest")

\* C5 witness: a score computed with the weights table missing although
\* weighted features are true, and a non-zero context adjustment.
C5_Witness ==
    /\ Scored
    /\ "weights" \notin DOMAIN config
    /\ features.ema_align
    /\ features.breakout
    /\ features.ctx_adj # 0
    /\ scores.base_score = 0

-----------------------------------------------------------------------------
(* Scan: the claims                                                        *)

\* The detection block of analyze_symbol has completed.
Detected == s_pc \in {"detected", "confirmed", "swung", "context", "scored",
                      "logged", "done", "raised"}

\* score_signal has returned inside analyze_symbol.
ScanScored == s_pc \in {"scored", "logged", "done", "raised"} /\ config # PyNone

\* The record has been built and logged.
Logged == s_pc \in {"logged", "done", "raised"}

\* x lies at or below the top of the zone level + ATR * 0.5.
InZoneBelowTop(x, level) ==
    2 * det.last_atr[2] * x <= 2 * det.last_atr[2] * level + det.last_atr[1]

\* C6: when breakout is true for the current bar, retest, bounce_support,
\* support_retest and fall_resistance are all false for that bar.
C6_BreakoutExcludesOthers ==
    (Detected /\ det.breakout) =>
        /\ ~det.retest
        /\ ~det.bounce_from_support
        /\ ~det.support_retest
        /\ ~det.fall_from_resistance

\* C6 witness: a breakout bar whose low also sits in the resistance zone, so
\* that only the tie-break keeps retest false.
C6_Witness ==
    /\ Detected
    /\ det.breakout
    /\ InZoneBelowTop(det.last_low, det.resistance)
    /\ det.last_close >= det.resistance
    /\ ~det.retest

\* C7: side "NONE" leaves entry and stop-loss unset and the ladder empty, and
\* side BUY or SELL populates all three.
C7_LevelSetAllOrNothing ==
    Logged =>
        /\ side = "NONE" =>
              (~Has(record, "entry") /\ ~Has(record, "sl") /\ record.tps = <<>>)
        /\ side \in {"BUY", "SELL"} =>
              (Has(record, "entry") /\ Has(record, "sl") /\ record.tps # <<>>)

\* The bars (up to RECENT_BARS of them) immediately before the current bar.
PrecedingBars == {i \in 1..(Len(candles) - 1) : i >= Len(candles) - 5}

\* Bar i bounced: its low dipped to or below the support-zone top and its
\* close was above support.
Bounced(i) ==
    /\ InZoneBelowTop(candles[i].low, det.support)
    /\ candles[i].close > det.support

\* C8: support_retest is true only if one of the up to 5 bars immediately
\* preceding the current bar bounced.
C8_RetestNeedsPriorBounce ==
    (Detected /\ det.support_retest) => \E i \in PrecedingBars : Bounced(i)

\* C8 witness: a support retest with a bounce among the preceding bars.
C8_Witness ==
    /\ Detected
    /\ det.support_retest
    /\ \E i \in PrecedingBars : Bounced(i)

\* C9: mtf_score is the configured multi-timeframe weight whenever
\* mtf_ema_align or swing_confirm is true, and 0 only when both are false.
C9_MtfScoreFromEitherFlag ==
    ScanScored =>
        scores.mtf_score =
            IF features.mtf_ema_align \/ features.swing_confirm
            THEN ConfiguredWeight("mtf_weights", "ema") ELSE 0

\* C10: a SELL signal (ema_down and macd_neg true) scored with non-zero
\* ema_align and macd weights has a non-zero base_score.
C10_SellScoresBearishFeatures ==
    (/\ ScanScored
     /\ side = "SELL"
     /\ ConfiguredWeight("weights", "ema_align") # 0
     /\ ConfiguredWeight("weights", "macd") # 0)
        => scores.base_score # 0

\* The line log_signal persisted for the record of the current analysis.
PersistedLine == log[Len(log)]

\* C12: every field of the Signal Record is present in the persisted line,
\* and for a BUY or SELL signal label_one_alert reading the line back obtains
\* the side, entry, stop-loss and ordered take-profit ladder the scan computed.
C12_LogCarriesRecord ==
    Logged =>
        /\ \A k \in DOMAIN record : Has(PersistedLine, k)
        /\ side \in {"BUY", "SELL"} =>
              /\ Get(PersistedLine, "side", "") = record.side
              /\ Has(PersistedLine, "entry") /\ PersistedLine.entry = record.entry
              /\ Has(PersistedLine, "sl") /\ PersistedLine.sl = record.sl
              /\ TpsOf(PersistedLine) = record.tps

\* main of scanner.py has ended, by returning or by an exception.
MainEnded == m_pc \in {"finished", "raised"}

\* C15: a notification that cannot be delivered is never raised into the
\* scan loop, and every symbol of the list has been analysed when main ends.
C15_DeliveryFailureContained ==
    /\ m_pc # "raised"
    /\ MainEnded => m_i > Len(symbols)

\* C16: after detection succeeds, a failed confirm, swing or BTC check leaves
\* its neutral value (false, false, 0), and the analysis goes on: it is never
\* abandoned, it can always step until the record is logged, and the logged
\* record carries the scores and the neutral values.
C16_ChecksFailSoft ==
    (Detected /\ warnings # {}) =>
        /\ "confirm" \in warnings => tf15_confirm = FALSE
        /\ "swing" \in warnings => swing_confirm = FALSE
        /\ "btc" \in warnings => btc_ctx = 0
        /\ s_pc # "abandoned"
        /\ Logged \/ ENABLED ScanNext
        /\ Logged =>
              /\ Len(log) = 1
              /\ scores # EmptyDict
              /\ PersistedLine.tf15_confirm = tf15_confirm
              /\ PersistedLine.btc_ctx = btc_ctx
              /\ PersistedLine.final_score = scores.final_score

\* C16 witness: all three checks failed and the record was logged.
C16_Witness ==
    /\ Logged
    /\ warnings = {"confirm", "swing", "btc"}
    /\ Len(log) = 1
    /\ side = "BUY"

\* The lookback window: the up to `window` bars before the current bar.
PrecedingWindow == {i \in 1..(Len(candles) - 1) : i >= Len(candles) - window}

\* C17: whatever the length of the series, resistance is the maximum high and
\* support the minimum low over the lookback window of bars preceding the
\* current bar; the current bar's own high and low never determine them.
C17_LevelsExcludeCurrentBar ==
    Detected =>
        /\ \E i \in PrecedingWindow : candles[i].high = det.resistance
        /\ \A i \in PrecedingWindow : candles[i].high <= det.resistance
        /\ \E i \in PrecedingWindow : candles[i].low = det.support
        /\ \A i \in PrecedingWindow : candles[i].low >= det.support

\* The log lines and the notifications of a symbol.
LinesOf(sym) == {i \in 1..Len(log) : log[i].symbol = sym}
SentOf(sym) == {i \in 1..Len(sent) : sent[i].symbol = sym}

\* C18: a symbol whose analysis completes has exactly one log line, written
\* before any notification; a notification is sent only for a line with
\* final_score >= the alert threshold and side BUY or SELL, and at most one
\* per symbol per scan.
C18_LogOnceThenNotify ==
    /\ \A n \in 1..Len(symbols) :
          /\ Cardinality(LinesOf(symbols[n])) <= 1
          /\ Cardinality(SentOf(symbols[n])) <= 1
          /\ SentOf(symbols[n]) # {} =>
                \E i \in LinesOf(symbols[n]) :
                    /\ log[i].final_score >= ALERT_THRESHOLD
                    /\ log[i].side \in {"BUY", "SELL"}
    /\ s_pc \in {"logged", "done", "raised"} => Cardinality(LinesOf(symbol)) = 1
    /\ s_pc \in {"detected", "confirmed", "swung", "context", "scored"} =>
          (LinesOf(symbol) = {} /\ SentOf(symbol) = {})

\* C18 witness: the scan ended with every symbol logged, one of them
\* notified and one of them not.
C18_Witness ==
    /\ m_pc = "finished"
    /\ Len(log) = Len(symbols)
    /\ Len(sent) >= 1
    /\ \E n \in 1..Len(symbols) : SentOf(symbols[n]) = {}

=============================================================================
